---- MODULE Spec2Model ----
(***************************************************************************)
(* A model of makeSpanningBackground.py: the main loop with its output     *)
(* (the --noclobber test, imsave, the wallpaper), the image selector       *)
(* (get_next_background_image), the scaling planner (calculate_scaling),   *)
(* the bounds-checked copy (copy_subimage), create_giant_image (its canvas *)
(* on every display list, and the whole of it pixel by pixel on small      *)
(* layouts) and the Windows origin correction (correct_windows_origin).    *)
(*                                                                         *)
(* Conventions.  Rasters are numpy arrays in the source; here a raster is  *)
(* a record [shape |-> <<H, W>>, px |-> function from cells <<y, x>>       *)
(* (0-based, as in the source) to pixel values].  Ordered pairs and the    *)
(* 4-tuples (height, width, yOffset, xOffset) of the source are TLA+       *)
(* tuples, so the source's index [0] is the index [1] here.  Real numbers  *)
(* (the source runs under "from __future__ import division") are exact     *)
(* fractions <<numerator, denominator>>.                                   *)
(***************************************************************************)
EXTENDS Integers, Sequences, FiniteSets, TLC

VARIABLES
    round_half_even,  \* the interpreter's round(): TRUE = Python 3 (ties to
                      \* even), FALSE = Python 2 (ties away from zero)
    copy,             \* one call of copy_subimage: its arguments and effect
    origin,           \* correct_windows_origin calls on one canvas
    scaling,          \* one call of calculate_scaling: arguments and result
    giant,            \* one run of create_giant_image
    args,             \* the parsed command line (the selector's options)
    files,            \* what reload_background_files() finds on disk
    display_res_list, \* what get_display_info() returns
    all_background_files, \* the global list of background file names
    pool_ids,         \* for each entry of all_background_files, its position
                      \* in the list as it was (re)loaded
    background_indices,   \* local of get_next_background_image
    local_reset_done,     \* local of get_next_background_image
    image,            \* the value get_next_background_image returned
    count,            \* the display being served by the main loop (0-based)
    bg_image_names,   \* names selected in this iteration of the main loop
    returned,         \* pool_ids returned since the list was last reloaded
    pool_at_reload,   \* all_background_files just before the last reload
    failed,           \* entries whose decode failed since the last reload
    primary_window_origin,  \* the global yx_primary_window_origin
    env,              \* what the run meets: the display lists the system
                      \* reports and whether writing the output may fail
    disk,             \* the output path: whether a file exists there, and
                      \* whether the program has replaced an existing file
    call,             \* the current call of get_next_background_image
    iter,             \* the current iteration of the main loop
    composite,        \* one run of create_giant_image, pixel by pixel
    pc                \* where the program is

vars == <<round_half_even, copy, origin, scaling, giant, args, files,
          display_res_list, all_background_files, pool_ids,
          background_indices, local_reset_done, image, count,
          bg_image_names, returned, pool_at_reload, failed,
          primary_window_origin, env, disk, call,
          iter,
          composite, pc>>

\* The variables of the selector and the main loop, but for args.
selectorVars == <<files, display_res_list, all_background_files, pool_ids,
                  background_indices, local_reset_done, image, count,
                  bg_image_names, returned, pool_at_reload, failed,
                  primary_window_origin, env, disk,
                  call,
                  iter, pc>>

\* The variables of the specifications of single functions.
functionVars == <<copy, origin, scaling, giant, composite>>

\* The value of a variable that a specification does not use.
Unused == "unused"

Max(a, b) == IF a >= b THEN a ELSE b
Min(a, b) == IF a <= b THEN a ELSE b

\* The largest element of a non-empty set of integers (Python's max()).
SetMax(S) == CHOOSE m \in S : \A n \in S : n <= m

(***************************************************************************)
(* numpy basic slicing and slice assignment                                *)
(***************************************************************************)

\* a[start:stop] on an axis of length n addresses the indices
\* first, first+1, ... (count of them): a negative bound counts from the
\* end, and both bounds are clipped to 0..n.  The result is <<first, count>>.
SliceIdx(start, stop, n) ==
    LET Norm(b) == IF b < 0 THEN Max(b + n, 0) ELSE Min(b, n)
    IN  <<Norm(start), Max(Norm(stop) - Norm(start), 0)>>

\* numpy broadcasts a value axis of length ls onto a target axis of length ld
\* iff the lengths agree or ls is 1.
Broadcasts(ls, ld) == ls = ld \/ ls = 1

Cells(shape) == (0..(shape[1] - 1)) \X (0..(shape[2] - 1))

\* The cells of the block of rows ys = <<first, count>>, columns xs.
Block(ys, xs) ==
    (ys[1]..(ys[1] + ys[2] - 1)) \X (xs[1]..(xs[1] + xs[2] - 1))

\* The only element of a set of one element.
The(S) == CHOOSE v \in S : TRUE

\* The pixel of a raster at a cell; a cell that is no cell of the raster
\* yields the value <<"outside", y, x>>, which is no pixel of any raster.
Load(raster, c) ==
    IF c \in DOMAIN raster.px THEN raster.px[c] ELSE <<"outside", c[1], c[2]>>

\* The store of the block Sy, Sx of from_image into the block Dy, Dx of
\* to_image.  raised: numpy's ValueError (could not broadcast input array);
\* then nothing is written.  written/read: the cells stored to and loaded.
StoreBlock(to_image, Dy, Dx, from_image, Sy, Sx) ==
    IF ~(Broadcasts(Sy[2], Dy[2]) /\ Broadcasts(Sx[2], Dx[2]))
    THEN [raised |-> TRUE, image |-> to_image, written |-> {}, read |-> {}]
    ELSE [raised |-> FALSE,
          image |-> [shape |-> to_image.shape,
                     px |-> [c \in DOMAIN to_image.px |->
                               IF c \in Block(Dy, Dx)
                               THEN Load(from_image,
                                      <<IF Sy[2] = 1 THEN Sy[1]
                                        ELSE Sy[1] + (c[1] - Dy[1]),
                                        IF Sx[2] = 1 THEN Sx[1]
                                        ELSE Sx[1] + (c[2] - Dx[1])>>)
                               ELSE to_image.px[c]]],
          written |-> Block(Dy, Dx),
          read |-> IF Block(Dy, Dx) = {} THEN {} ELSE Block(Sy, Sx)]

\* to_image[ty[1]:ty[2], tx[1]:tx[2]] = from_image[fy[1]:fy[2], fx[1]:fx[2]]
SliceAssign(to_image, ty, tx, from_image, fy, fx) ==
    The({StoreBlock(to_image, Dy, Dx, from_image, Sy, Sx) :
            Dy \in {SliceIdx(ty[1], ty[2], to_image.shape[1])},
            Dx \in {SliceIdx(tx[1], tx[2], to_image.shape[2])},
            Sy \in {SliceIdx(fy[1], fy[2], from_image.shape[1])},
            Sx \in {SliceIdx(fx[1], fx[2], from_image.shape[2])}})

\* A raster of the given shape whose pixel at <<y, x>> is <<tag, y, x>>.
Raster(tag, shape) ==
    [shape |-> shape, px |-> [c \in Cells(shape) |-> <<tag, c[1], c[2]>>]]

(***************************************************************************)
(* copy_subimage                                                           *)
(***************************************************************************)

\* Rasters of the copy specification have sides 1..MaxShape, starts range
\* over -1..MaxStart and extents over 0..MaxExtent.
MaxShape == 2
MaxStart == 2
MaxExtent == 2

\* One pass of "for dim in [0, 1]" over one raster: the extent of a dimension
\* after the two tests against that raster's shape.
ClampExtent(extent, start, size) ==
    LET e1 == IF start > size THEN 0 ELSE extent
    IN  IF start + e1 > size THEN size - start ELSE e1

\* yx_extents without the loop over from_image: the extents are compared
\* with the shape of to_image only.
ExtentsClampedToDestination(yx_extents, from_shape, yx_from_start, to_shape, yx_to_start) ==
    [dim \in 1..2 |->
        ClampExtent(yx_extents[dim], yx_to_start[dim], to_shape[dim])]

\* yx_extents after both loops (from_image first, then to_image).
ClampedExtents(yx_extents, from_shape, yx_from_start, to_shape, yx_to_start) ==
    [dim \in 1..2 |->
        ClampExtent(ClampExtent(yx_extents[dim], yx_from_start[dim], from_shape[dim]),
                    yx_to_start[dim], to_shape[dim])]

\* The whole of copy_subimage: the clamps, then the slice assignment.
\* yx_extents of the result: the extents after the clamps.
copy_subimage(yx_extents, from_image, yx_from_start, to_image, yx_to_start) ==
    LET e == ClampedExtents(yx_extents, from_image.shape, yx_from_start,
                            to_image.shape, yx_to_start)
    IN  The({[raised |-> r.raised, to_image |-> r.image, yx_extents |-> e,
              written |-> r.written, read |-> r.read] :
             r \in {SliceAssign(to_image,
                        <<yx_to_start[1], yx_to_start[1] + e[1]>>,
                        <<yx_to_start[2], yx_to_start[2] + e[2]>>,
                        from_image,
                        <<yx_from_start[1], yx_from_start[1] + e[1]>>,
                        <<yx_from_start[2], yx_from_start[2] + e[2]>>)}})

CopyShapes == (1..MaxShape) \X (1..MaxShape)
CopyStarts == ((-1)..MaxStart) \X ((-1)..MaxStart)
CopyExtents == (0..MaxExtent) \X (0..MaxExtent)

CopyInit ==
    /\ copy \in [pc : {"call"}, yx_extents : CopyExtents,
                 from_shape : CopyShapes, yx_from_start : CopyStarts,
                 to_shape : CopyShapes, yx_to_start : CopyStarts]

\* A call of copy_subimage on a source raster and a destination raster.
CopySubimage ==
    /\ copy.pc = "call"
    /\ \E from_image \in {Raster("from", copy.from_shape)},
          to_image \in {Raster("to", copy.to_shape)} :
       \E r \in {copy_subimage(copy.yx_extents, from_image, copy.yx_from_start,
                               to_image, copy.yx_to_start)} :
           copy' = [pc |-> IF r.raised THEN "ValueError" ELSE "returned",
                    yx_extents |-> copy.yx_extents,
                    from_shape |-> copy.from_shape,
                    yx_from_start |-> copy.yx_from_start,
                    to_shape |-> copy.to_shape,
                    yx_to_start |-> copy.yx_to_start,
                    to_image |-> r.to_image,
                    clamped |-> r.yx_extents,
                    written |-> r.written,
                    read |-> r.read]

(***************************************************************************)
(* correct_windows_origin                                                  *)
(***************************************************************************)

\* Canvases of the origin specification have sides 1..MaxCanvas; the origin
\* ranges over -1..side+1; MaxCorrections calls are made on one canvas.
MaxCanvas == 3
MaxCorrections == 2

\* The four pieces moved by (+y0, +x0) instead of (-y0, -x0).
QuadrantsWrongDirection(im_high_y, im_high_x, y0, x0) ==
    << [ty |-> <<y0, im_high_y>>, tx |-> <<x0, im_high_x>>,
        fy |-> <<0, im_high_y - y0>>, fx |-> <<0, im_high_x - x0>>],
       [ty |-> <<0, y0>>, tx |-> <<0, x0>>,
        fy |-> <<im_high_y - y0, im_high_y>>, fx |-> <<im_high_x - x0, im_high_x>>],
       [ty |-> <<0, y0>>, tx |-> <<x0, im_high_x>>,
        fy |-> <<im_high_y - y0, im_high_y>>, fx |-> <<0, im_high_x - x0>>],
       [ty |-> <<y0, im_high_y>>, tx |-> <<0, x0>>,
        fy |-> <<0, im_high_y - y0>>, fx |-> <<im_high_x - x0, im_high_x>>] >>

\* The two top pieces stored without changing sides: each keeps its columns.
QuadrantsTopNotSwapped(im_high_y, im_high_x, y0, x0) ==
    << [ty |-> <<im_high_y - y0, im_high_y>>, tx |-> <<0, x0>>,
        fy |-> <<0, y0>>, fx |-> <<0, x0>>],
       [ty |-> <<0, im_high_y - y0>>, tx |-> <<0, im_high_x - x0>>,
        fy |-> <<y0, im_high_y>>, fx |-> <<x0, im_high_x>>],
       [ty |-> <<0, im_high_y - y0>>, tx |-> <<im_high_x - x0, im_high_x>>,
        fy |-> <<y0, im_high_y>>, fx |-> <<0, x0>>],
       [ty |-> <<im_high_y - y0, im_high_y>>, tx |-> <<x0, im_high_x>>,
        fy |-> <<0, y0>>, fx |-> <<x0, im_high_x>>] >>

\* The four chunk copies of correct_windows_origin, in source order.  Each is
\* new_image[ty[1]:ty[2], tx[1]:tx[2]] = image[fy[1]:fy[2], fx[1]:fx[2]].
Quadrants(im_high_y, im_high_x, y0, x0) ==
    << \* top left piece of image
       [ty |-> <<im_high_y - y0, im_high_y>>, tx |-> <<im_high_x - x0, im_high_x>>,
        fy |-> <<0, y0>>, fx |-> <<0, x0>>],
       \* bottom right piece of image
       [ty |-> <<0, im_high_y - y0>>, tx |-> <<0, im_high_x - x0>>,
        fy |-> <<y0, im_high_y>>, fx |-> <<x0, im_high_x>>],
       \* bottom left piece of image
       [ty |-> <<0, im_high_y - y0>>, tx |-> <<im_high_x - x0, im_high_x>>,
        fy |-> <<y0, im_high_y>>, fx |-> <<0, x0>>],
       \* top right piece of image
       [ty |-> <<im_high_y - y0, im_high_y>>, tx |-> <<0, im_high_x - x0>>,
        fy |-> <<0, y0>>, fx |-> <<x0, im_high_x>>] >>

\* The four copies storing into the argument array itself.
NewImageBufferAliased == "image"

\* The buffer the four copies store into: the array np.empty_like(image)
\* made for the result, which is another buffer than the argument.
NewImageBuffer == "new_image"

\* One of the four copies, on the state st of the call.  heap: the two
\* arrays of the call.  writes[c]: how many of the copies so far stored to
\* cell c.  raised: a copy raised numpy's ValueError, which ends the call.
CopyPiece(st, piece) ==
    IF st.raised THEN st
    ELSE The({[raised |-> r.raised,
               heap |-> [st.heap EXCEPT ![NewImageBuffer] = r.image],
               writes |-> [c \in DOMAIN st.writes |->
                             st.writes[c] + IF c \in r.written THEN 1 ELSE 0]] :
              r \in {SliceAssign(st.heap[NewImageBuffer], piece.ty, piece.tx,
                                 st.heap["image"], piece.fy, piece.fx)}})

\* correct_windows_origin(image) with the global yx_primary_window_origin.
\* np.empty_like leaves the new array's contents undefined: its pixel at
\* <<y, x>> is the value <<"uninit", y, x>>, which is no pixel of any canvas.
\* The result holds the returned array (new_image) and the argument array as
\* the call leaves it (image).
correct_windows_origin(image_arg, yx_primary_window_origin) ==
    LET im_high_y == image_arg.shape[1]
        im_high_x == image_arg.shape[2]
        y0 == yx_primary_window_origin[1]
        x0 == yx_primary_window_origin[2]
        q == Quadrants(im_high_y, im_high_x, y0, x0)
        start == [raised |-> FALSE,
                  heap |-> [image |-> image_arg,
                            new_image |-> Raster("uninit", image_arg.shape)],
                  writes |-> [c \in Cells(image_arg.shape) |-> 0]]
    IN  The({The({The({The({
            [raised |-> s4.raised, new_image |-> s4.heap[NewImageBuffer],
             image |-> s4.heap["image"], writes |-> s4.writes] :
            s4 \in {CopyPiece(s3, q[4])}}) :
            s3 \in {CopyPiece(s2, q[3])}}) :
            s2 \in {CopyPiece(s1, q[2])}}) :
            s1 \in {CopyPiece(start, q[1])}})

CanvasShapes == (1..MaxCanvas) \X (1..MaxCanvas)

OriginInit ==
    /\ origin \in [pc : {"canvas"}, shape : CanvasShapes,
                   giant_image : {<<>>}, image : {<<>>}, writes : {<<>>},
                   applied : {<<>>}]

\* The canvas a composite run has built, before any correction.
FirstCanvas(shape) == Raster("canvas", shape)

\* The last step of create_giant_image on Windows: the global origin is set
\* (by --windows, or by the display-info refresh before the run) and the
\* canvas is replaced by correct_windows_origin(canvas).
CorrectWindowsOrigin ==
    /\ origin.pc \in {"canvas", "corrected"}
    /\ Len(origin.applied) < MaxCorrections
    /\ \E y0 \in (-1)..(origin.shape[1] + 1), x0 \in (-1)..(origin.shape[2] + 1) :
          \E r \in {correct_windows_origin(
                        IF origin.pc = "canvas" THEN FirstCanvas(origin.shape)
                        ELSE origin.giant_image, <<y0, x0>>)} :
              origin' = [pc |-> IF r.raised THEN "ValueError" ELSE "corrected",
                         shape |-> origin.shape,
                         giant_image |-> r.new_image,
                         image |-> r.image,
                         writes |-> r.writes,
                         applied |-> Append(origin.applied, <<y0, x0>>)]

(***************************************************************************)
(* calculate_scaling                                                       *)
(***************************************************************************)

\* Images of the scaling specification have sides 1..MaxImage and displays
\* have sides 1..MaxRes.
MaxImage == 6
MaxRes == 6

\* int(round(n/d)) for a fraction n/d >= 0: Python 3 rounds a tie to the even
\* neighbour, Python 2 away from zero.
Round(n, d) ==
    LET q == n \div d
        r == n % d
    IN  IF 2 * r < d THEN q
        ELSE IF 2 * r > d THEN q + 1
        ELSE IF round_half_even /\ q % 2 = 0 THEN q
        ELSE q + 1

Abs(n) == IF n < 0 THEN -n ELSE n

\* The exponent of a double: the b with 2^b <= n/d < 2^(b+1), for n, d > 0.
RECURSIVE FloorLog2(_, _)
FloorLog2(n, d) ==
    IF n >= 2 * d THEN 1 + FloorLog2(n, 2 * d)
    ELSE IF n < d THEN FloorLog2(2 * n, d) - 1
    ELSE 0

\* 2^e modulo m.
RECURSIVE Pow2Mod(_, _)
Pow2Mod(e, m) == IF e = 0 THEN 1 % m ELSE (2 * Pow2Mod(e - 1, m)) % m

\* The error of the double quotient num / den ("zoom_y = disp_res[0] /
\* image.shape[0]"): with the 53-bit mantissa m of the quotient and its
\* scale 2^e, the difference m * den - num * 2^e of rounding to nearest,
\* ties to the even mantissa.
QuotientError(num, den) ==
    LET e == 52 - FloorLog2(num, den)
        R == (num * Pow2Mod(e, den)) % den
        m0 == (((num * Pow2Mod(e, 2 * den)) % (2 * den)) - R) \div den
    IN  IF 2 * R < den THEN -R
        ELSE IF 2 * R > den THEN den - R
        ELSE IF m0 % 2 = 0 THEN -R ELSE den - R

\* int(round(x * (num / den))) as the doubles of the source give it
\* ("int(round(yx_curr[1]*zoom_y))"), for x, num, den > 0.  Off a tie the
\* errors of the quotient and of the product are too small to change the
\* nearest integer.  At x * num / den = k + 1/2 the product is the double
\* next to k + 1/2 on the side of the quotient's error when that error,
\* times x, is more than half a unit in the last place of the product (a
\* quarter when the product falls below 1/2, where doubles are twice as
\* dense), and round() then has no tie to break; else the product is
\* k + 1/2 itself and round() breaks the tie.
RoundOfProduct(x, num, den) ==
    LET n == x * num
        k == n \div den
        eps == QuotientError(num, den)
        t == FloorLog2(2 * k + 1, 2) - FloorLog2(num, den)
        half == IF k = 0 /\ eps < 0 THEN 4 ELSE 2
    IN  IF 2 * (n % den) # den THEN Round(n, den)
        ELSE IF half * Abs(x * eps) <= den * 2^t THEN Round(n, den)
        ELSE IF eps > 0 THEN k + 1
        ELSE k

\* An option of argparse that was not given is None, which is false; one that
\* was given is a non-empty list, which is true whatever it holds.
Given(option) == option # <<>>

\* The two tests below with the comparison turned round.
FillTooNarrowReversed(width, disp_width) == width > disp_width

FitTooWideReversed(width, disp_width) == width < disp_width

\* "if yx_new[1] < disp_res[1]" of the fill policy: the height-exact size is
\* too narrow for the display.
FillTooNarrow(width, disp_width) == width < disp_width

\* "if yx_new[1] > disp_res[1]" of the fit policy: the height-exact size is
\* too wide for the display.
FitTooWide(width, disp_width) == width > disp_width

\* The width-exact size with its width taken from the height's zoom.
ExactXWidthByHeightZoom(yx_curr, disp_res) ==
    <<RoundOfProduct(yx_curr[1], disp_res[2], yx_curr[2]),
      RoundOfProduct(yx_curr[2], disp_res[1], yx_curr[1])>>

\* yx_exact_x: the size that makes the width fit exactly;
\* yx_curr[0]*zoom_x = height * (disp_res[1] / width).
ExactX(yx_curr, disp_res) ==
    <<RoundOfProduct(yx_curr[1], disp_res[2], yx_curr[2]), disp_res[2]>>

\* Half of the display's side instead of half of the difference.
FitOffsetOfDisplay(new_side, disp_side) == Round(disp_side, 2)

\* "int(round(abs((yx_new[d]-disp_res[d])/2)))"
FitOffset(new_side, disp_side) == Round(Abs(new_side - disp_side), 2)

\* calculate_scaling(image, disp_res, disp_res_list); of the image only the
\* shape is read.  The result is the source's 4-tuple
\* (yx_curr, yx_new, fitimage_offsets, err_fraction).
calculate_scaling(image_shape, disp_res, disp_res_list_arg) ==
    LET yx_curr == image_shape
        \* yx_curr[1]*zoom_y = width * (disp_res[0] / height)
        yx_exact_y == <<disp_res[1],
                        RoundOfProduct(yx_curr[2], disp_res[1], yx_curr[1])>>
        yx_exact_x == ExactX(yx_curr, disp_res)
        fit == Given(args.fitimage)
        yx_new == IF fit
                  THEN IF FitTooWide(yx_exact_y[2], disp_res[2])
                       THEN yx_exact_x ELSE yx_exact_y
                  ELSE IF FillTooNarrow(yx_exact_y[2], disp_res[2])
                       THEN yx_exact_x ELSE yx_exact_y
        fitimage_offsets ==
            IF fit
            THEN IF FitTooWide(yx_exact_y[2], disp_res[2])
                 THEN <<FitOffset(yx_new[1], disp_res[1]), 0>>
                 ELSE <<0, FitOffset(yx_new[2], disp_res[2])>>
            ELSE <<0, 0>>
        err_policy ==
            IF fit
            THEN IF FitTooWide(yx_exact_y[2], disp_res[2])
                 THEN <<(disp_res[1] - yx_new[1]) * disp_res[2],
                        disp_res[1] * disp_res[2]>>
                 ELSE <<(disp_res[2] - yx_new[2]) * disp_res[1],
                        disp_res[1] * disp_res[2]>>
            ELSE <<(yx_new[1] - disp_res[1]) * yx_new[2]
                      + (yx_new[2] - disp_res[2]) * yx_new[1],
                   yx_new[1] * yx_new[2]>>
        Area(k) == disp_res_list_arg[k][1] * disp_res_list_arg[k][2]
        SumAreas[k \in 0..Len(disp_res_list_arg)] ==
            IF k = 0 THEN 0 ELSE SumAreas[k - 1] + Area(k)
        total_screen_area == SumAreas[Len(disp_res_list_arg)]
        err_fraction ==
            IF args.oneimage
            THEN <<Abs(yx_new[1] * yx_new[2] - total_screen_area), total_screen_area>>
            ELSE err_policy
    IN  <<yx_curr, yx_new, fitimage_offsets, err_fraction>>

\* The options calculate_scaling reads.
ScalingArgs ==
    [fitimage : {<<>>, <<0, 0, 0>>}, oneimage : BOOLEAN]

ImageShapes == (1..MaxImage) \X (1..MaxImage)
DispSizes == (1..MaxRes) \X (1..MaxRes)

\* A display of the given size at the given offset.
Display(size, yOffset, xOffset) == <<size[1], size[2], yOffset, xOffset>>

\* Images and displays beyond the small sizes for which the double product
\* of calculate_scaling misses a tie: 11 * (15 / 22) and 21 * (17 / 14) fall
\* below 7.5 and 25.5, 15 * (25 / 6) falls above 62.5; each with displays
\* as wide (or as high) as the two integers next to the tie.
DoubleTieCases ==
    { <<<<22, 11>>, <<15, 7>>>>, <<<<22, 11>>, <<15, 8>>>>,
      <<<<11, 22>>, <<7, 15>>>>, <<<<11, 22>>, <<8, 15>>>>,
      <<<<14, 21>>, <<17, 25>>>>, <<<<14, 21>>, <<17, 26>>>>,
      <<<<6, 15>>, <<25, 62>>>>, <<<<6, 15>>, <<25, 63>>>> }

\* The display list is the display alone, or the display and a second one of
\* the same size to its right.
ScalingInit ==
    /\ round_half_even \in BOOLEAN
    /\ args \in ScalingArgs
    /\ \E case \in (ImageShapes \X DispSizes) \cup DoubleTieCases,
          two \in BOOLEAN :
       \E im \in {case[1]}, size \in {case[2]} :
          scaling = [pc |-> "call", image_shape |-> im,
                     disp_res |-> Display(size, 0, 0),
                     disp_res_list |->
                         IF two THEN <<Display(size, 0, 0), Display(size, 0, size[2])>>
                         ELSE <<Display(size, 0, 0)>>]

\* A call of calculate_scaling.
CalculateScaling ==
    /\ scaling.pc = "call"
    /\ LET r == calculate_scaling(scaling.image_shape, scaling.disp_res,
                                  scaling.disp_res_list)
       IN  scaling' = [pc |-> "returned", image_shape |-> scaling.image_shape,
                       disp_res |-> scaling.disp_res,
                       disp_res_list |-> scaling.disp_res_list,
                       yx_curr |-> r[1], yx_new |-> r[2],
                       fitimage_offsets |-> r[3], err_fraction |-> r[4]]
    /\ UNCHANGED <<round_half_even, args>>

(***************************************************************************)
(* create_giant_image: the canvas                                          *)
(***************************************************************************)

\* The display lists of the canvas specification hold 1..MaxDisplays displays
\* with sides 1..MaxSide at offsets 0..MaxOffset.
MaxDisplays == 2
MaxSide == 2
MaxOffset == 1

\* The bounding box of the sizes alone, the offsets forgotten.
BoundingBoxOfSizes(disp_res_list) ==
    <<SetMax({disp_res_list[i][1] : i \in 1..Len(disp_res_list)}),
      SetMax({disp_res_list[i][2] : i \in 1..Len(disp_res_list)})>>

\* max_y and max_x: the bounding box around all the displays.
BoundingBox(disp_res_list) ==
    <<SetMax({disp_res_list[i][1] + disp_res_list[i][3] : i \in 1..Len(disp_res_list)}),
      SetMax({disp_res_list[i][2] + disp_res_list[i][4] : i \in 1..Len(disp_res_list)})>>

\* The first step of create_giant_image(image_list, disp_res_list_arg): the
\* bounding box, the empty canvas of that size and, with --oneimage, the
\* display list reset to one display covering the canvas.
CreateCanvas(disp_res_list_arg) ==
    LET box == BoundingBox(disp_res_list_arg)
    IN  [giant_shape |-> box,
         disp_res_list |-> IF args.oneimage THEN <<<<box[1], box[2], 0, 0>>>>
                           ELSE disp_res_list_arg]

GiantRects ==
    (1..MaxSide) \X (1..MaxSide) \X (0..MaxOffset) \X (0..MaxOffset)

GiantDisplayLists ==
    UNION {[1..n -> GiantRects] : n \in 1..MaxDisplays}

GiantInit ==
    /\ args \in [oneimage : BOOLEAN]
    /\ giant \in [pc : {"call"}, disp_res_list_arg : GiantDisplayLists]

\* create_giant_image up to the creation of the empty canvas.
CreateGiantImage ==
    /\ giant.pc = "call"
    /\ LET r == CreateCanvas(giant.disp_res_list_arg)
       IN  giant' = [pc |-> "canvas", disp_res_list_arg |-> giant.disp_res_list_arg,
                     disp_res_list |-> r.disp_res_list,
                     giant_shape |-> r.giant_shape]
    /\ UNCHANGED args

(***************************************************************************)
(* get_next_background_image and the main loop                             *)
(***************************************************************************)

\* reload_background_files() finds 0..MaxFiles image file names.
MaxFiles == 3

\* The longest list of files in the runs that exercise the output.
MaxRunFiles == 2

\* The file names on disk.  A name may be listed more than once among the
\* positional arguments, and then it is found more than once.
Paths == {"bad.jpg", "square.jpg", "wide.jpg"}

\* What Image.open and np.array make of a file: the shape of the decoded
\* raster, or <<>> when the file cannot be read as an image (IOError).
Decode(selected_filename) ==
    CASE selected_filename = "square.jpg" -> <<2, 2>>
      [] selected_filename = "wide.jpg" -> <<2, 4>>
      [] OTHER -> <<>>

\* The display lists get_display_info() may return.
DisplayLists ==
    { <<>>,
      << <<2, 2, 0, 0>> >>,
      << <<2, 2, 0, 0>>, <<2, 4, 0, 2>> >>,
      << <<2, 4, 0, 0>>, <<2, 2, 0, 4>> >> }

\* The test without its "and not args.x11".
CorrectsOriginDespiteX11(system_os) ==
    system_os = "Windows" \/ Given(args.windows)

\* "(system_os == "Windows" or args.windows) and not args.x11"
CorrectsOrigin(system_os) ==
    (system_os = "Windows" \/ Given(args.windows)) /\ ~args.x11

\* The display list of --reslist: each string XxY+xOffset+yOffset, here the
\* four numbers <<x, y, xOffset, yOffset>> it holds, with x and y swapped.
ReslistDisplays(reslist) ==
    [i \in 1..Len(reslist) |->
        <<reslist[i][2], reslist[i][1], reslist[i][4], reslist[i][3]>>]

\* The command lines of the runs that exercise the selector: --sequential,
\* --percenterror P, --fitimage R G B, --oneimage, --timedelay MINUTES,
\* without --noclobber, --dontapply, --reslist, --windows and --x11.
MainArgs ==
    [sequential : BOOLEAN, percenterror : {<<>>, <<0>>, <<50>>},
     fitimage : {<<>>, <<0, 0, 0>>}, oneimage : BOOLEAN,
     timedelay : {<<>>, <<1>>}, noclobber : {FALSE}, dontapply : {FALSE},
     reslist : {<<>>}, windows : {<<>>}, x11 : {FALSE}]

FileLists == UNION {[1..n -> Paths] : n \in 0..MaxFiles}

\* list(range(n)), 0-based indices as in the source.
Range(n) == [i \in 1..n |-> i - 1]

\* The list without the element at 0-based index i (del list[i] and
\* list.pop(i)).
DelAt(list, i) ==
    [k \in 1..(Len(list) - 1) |-> IF k <= i THEN list[k] ELSE list[k + 1]]

\* The head of the list deleted instead of the selected entry.
DeleteFirst(list, file_index) == DelAt(list, 0)

\* list.remove(list[file_index]): the first entry with the selected name
\* deleted.
DeleteFirstOfName(list, file_index) ==
    DelAt(list, (CHOOSE k \in 1..Len(list) :
                    /\ list[k] = list[file_index + 1]
                    /\ \A j \in 1..(k - 1) : list[j] # list[k]) - 1)

\* "del all_background_files[file_index]" applied to a list.
DeleteSelected(list, file_index) == DelAt(list, file_index)

\* pop() without its argument: the last position with --sequential.
DrawPositionsLast(indices) ==
    IF args.sequential THEN {Len(indices) - 1} ELSE 0..(Len(indices) - 1)

\* The positions of background_indices the draw may pop: the first one with
\* --sequential, any of them (random.randint) without.
DrawPositions(indices) ==
    IF args.sequential THEN {0} ELSE 0..(Len(indices) - 1)

\* The comparison turned round: files below the threshold are rejected.
ExceedsPercentReversed(err_fraction, percent) ==
    err_fraction[1] * 100 < percent * err_fraction[2]

\* "err_fraction > args.percenterror[0] / 100" for a fraction <<n, d>>, d > 0.
ExceedsPercent(err_fraction, percent) ==
    err_fraction[1] * 100 > percent * err_fraction[2]

\* The reload not remembered.
MarkResetForgotten == FALSE

\* "local_reset_done = True" after the reload.
MarkReset == TRUE

\* The for loop left as with a break, and the program going on.
NoImagePcBreak == "create_giant_image"

\* Where the main loop goes when get_next_background_image returned the
\* empty tuple: sys.exit(1).
NoImagePc == "exit1"

\* A test that no number of displays passes.
NoDisplaysNever(num_displays) == num_displays < 0

\* "if num_displays == 0".
NoDisplays(num_displays) == num_displays = 0

\* The ghost record of one call of get_next_background_image: how often it
\* reloaded the list, how often it found background_indices empty at the
\* head of its loop, how many indices it has drawn, and the length of the
\* list at its entry.
NewCall == [reloads |-> 0, empties |-> 0, draws |-> 0, entry |-> 0]

\* The ghost record of one iteration of the main loop: get_display_info has
\* returned, a candidate was drawn, get_next_background_image returned the
\* empty tuple, create_giant_image was called, the output file was
\* written, the wallpaper was set.
NewIteration ==
    [read |-> FALSE, drawn |-> FALSE, none_returned |-> FALSE,
     canvas |-> FALSE, written |-> FALSE, applied |-> FALSE]

\* The state before the main loop; the list of files is loaded by the first
\* call of get_next_background_image.
MainStart ==
    /\ display_res_list = <<>>
    /\ all_background_files = <<>>
    /\ pool_ids = <<>>
    /\ background_indices = <<>>
    /\ local_reset_done = FALSE
    /\ image = <<>>
    /\ count = 0
    /\ bg_image_names = <<>>
    /\ returned = <<>>
    /\ pool_at_reload = <<>>
    /\ failed = {}
    /\ primary_window_origin = <<>>
    /\ call = NewCall
    /\ iter = NewIteration
    /\ pc = "main"

\* The runs that exercise the selector: every list of files and option of
\* the selector, one display layout for the whole run, an output path that
\* is free and writable, on Linux under GNOME.
MainInit ==
    /\ round_half_even \in BOOLEAN
    /\ args \in MainArgs
    /\ files \in FileLists
    /\ env \in [layouts : {{list} : list \in DisplayLists},
                imsave_may_fail : {FALSE}, system_os : {"Linux"},
                XDG_CURRENT_DESKTOP : {<<"GNOME">>}]
    /\ disk = [exists |-> FALSE, overwritten |-> FALSE]
    /\ MainStart

\* "if args.noclobber and os.path.exists(save_file_name)": the one test of
\* --noclobber, before the main loop.
CheckNoclobber ==
    /\ pc = "main"
    /\ pc' = IF args.noclobber /\ disk.exists THEN "exit0"
             ELSE "get_display_info"
    /\ UNCHANGED <<functionVars, round_half_even, args, files, env, disk,
                   display_res_list, all_background_files, pool_ids,
                   background_indices, local_reset_done, image, count,
                   bg_image_names, returned, pool_at_reload, failed,
                   primary_window_origin, call, iter>>

\* get_display_info() has returned the list: with no display the program
\* exits with status 1, else the for loop over the displays begins.
DisplayInfoReturned(list) ==
    /\ display_res_list' = list
    /\ iter' = [NewIteration EXCEPT !.read = TRUE]
    /\ IF NoDisplays(Len(list))
       THEN pc' = "exit1" /\ UNCHANGED <<count, bg_image_names>>
       ELSE pc' = "select" /\ count' = 0 /\ bg_image_names' = <<>>

\* The head of the main loop: the display information is read.  With
\* --reslist it is the list given and no system is asked.  Else the system
\* reports a list; get_display_info_windows also sets the global
\* yx_primary_window_origin to the place, in the list's coordinates, of the
\* primary display (which Windows reports at (0, 0)), and its min() of no
\* monitor at all raises ValueError.
GetDisplayInfo ==
    /\ pc = "get_display_info"
    /\ IF Given(args.reslist)
       THEN /\ DisplayInfoReturned(ReslistDisplays(args.reslist))
            /\ UNCHANGED primary_window_origin
       ELSE \E list \in env.layouts :
               IF env.system_os # "Windows"
               THEN /\ DisplayInfoReturned(list)
                    /\ UNCHANGED primary_window_origin
               ELSE IF list = <<>>
               THEN /\ pc' = "ValueError"
                    /\ iter' = NewIteration
                    /\ UNCHANGED <<display_res_list, count, bg_image_names,
                                   primary_window_origin>>
               ELSE \E primary \in 1..Len(list) :
                       /\ primary_window_origin' =
                              <<list[primary][3], list[primary][4]>>
                       /\ DisplayInfoReturned(list)
    /\ UNCHANGED <<functionVars, round_half_even, args, files, env, disk,
                   all_background_files, pool_ids, background_indices,
                   local_reset_done, image, returned, pool_at_reload, failed,
                   call>>

\* "for disp_res, count in zip(...)": the next display, for which
\* get_next_background_image is entered, or the end of the for loop.
SelectForDisplay ==
    /\ pc = "select"
    /\ IF count < Len(display_res_list)
       THEN /\ background_indices' = Range(Len(all_background_files))
            /\ local_reset_done' = FALSE
            /\ call' = [NewCall EXCEPT !.entry = Len(all_background_files)]
            /\ pc' = "while"
       ELSE /\ pc' = "create_giant_image"
            /\ UNCHANGED <<background_indices, local_reset_done, call>>
    /\ UNCHANGED <<functionVars, round_half_even, args, files, env, disk,
                   display_res_list, all_background_files, pool_ids, image,
                   count, bg_image_names, returned, pool_at_reload, failed,
                   primary_window_origin,
                   iter>>

\* One iteration of "while True" in get_next_background_image, from the test
\* of background_indices to the continue, the break or the return.
WhileIteration ==
    /\ pc = "while"
    /\ IF background_indices = <<>> /\ local_reset_done
       THEN \* return ()
            /\ image' = <<>>
            /\ pc' = "returned"
            /\ call' = [call EXCEPT !.empties = @ + 1]
            /\ iter' = [iter EXCEPT !.none_returned = TRUE]
            /\ UNCHANGED <<all_background_files, pool_ids, background_indices,
                           local_reset_done, returned, pool_at_reload,
                           failed>>
       ELSE LET reload == background_indices = <<>>
                list == IF reload THEN files ELSE all_background_files
                ids == IF reload THEN Range(Len(files)) ELSE pool_ids
                indices == IF reload THEN Range(Len(files)) ELSE background_indices
                reloaded == IF reload
                            THEN [call EXCEPT !.reloads = @ + 1,
                                              !.empties = @ + 1]
                            ELSE call
            IN  /\ local_reset_done' = IF reload THEN MarkReset
                                       ELSE local_reset_done
                /\ pool_at_reload' = IF reload THEN all_background_files
                                     ELSE pool_at_reload
                /\ IF indices = <<>>
                   THEN \* pop from an empty list, randint(0, -1)
                        /\ pc' = IF args.sequential THEN "IndexError"
                                 ELSE "ValueError"
                        /\ all_background_files' = list
                        /\ pool_ids' = ids
                        /\ background_indices' = indices
                        /\ returned' = <<>>
                        /\ failed' = IF reload THEN {} ELSE failed
                        /\ call' = reloaded
                        /\ UNCHANGED <<image, iter>>
                   ELSE \E pos \in DrawPositions(indices) :
                          LET file_index == indices[pos + 1]
                              selected_filename == list[file_index + 1]
                              bg_image == Decode(selected_filename)
                              rejected ==
                                  /\ bg_image # <<>>
                                  /\ Given(args.percenterror)
                                  /\ ExceedsPercent(
                                        calculate_scaling(bg_image,
                                            display_res_list[count + 1],
                                            display_res_list)[4],
                                        args.percenterror[1])
                          IN  /\ background_indices' = DelAt(indices, pos)
                              /\ iter' = [iter EXCEPT !.drawn = TRUE]
                              /\ call' = [reloaded EXCEPT !.draws = @ + 1]
                              /\ failed' = (IF reload THEN {} ELSE failed) \union
                                            (IF bg_image = <<>>
                                             THEN {ids[file_index + 1]} ELSE {})
                              /\ IF bg_image = <<>> \/ rejected
                                 THEN \* continue
                                      /\ all_background_files' = list
                                      /\ pool_ids' = ids
                                      /\ returned' = IF reload THEN <<>> ELSE returned
                                      /\ pc' = "while"
                                      /\ UNCHANGED image
                                 ELSE \* del, break, return
                                      /\ all_background_files' =
                                             DeleteSelected(list, file_index)
                                      /\ pool_ids' = DeleteSelected(ids, file_index)
                                      /\ returned' =
                                             Append(IF reload THEN <<>> ELSE returned,
                                                    ids[file_index + 1])
                                      /\ image' = <<selected_filename, bg_image>>
                                      /\ pc' = "returned"
    /\ UNCHANGED <<functionVars, round_half_even, args, files, env, disk,
                   display_res_list, count, bg_image_names,
                   primary_window_origin>>

\* The main loop after the call: no image ends the program with status 1;
\* otherwise the name is recorded and the for loop goes on (with --oneimage
\* it is left after the first display).
AfterGetNext ==
    /\ pc = "returned"
    /\ IF image = <<>>
       THEN pc' = NoImagePc /\ UNCHANGED <<count, bg_image_names>>
       ELSE /\ bg_image_names' = Append(bg_image_names, image[1])
            /\ IF args.oneimage
               THEN pc' = "create_giant_image" /\ UNCHANGED count
               ELSE pc' = "select" /\ count' = count + 1
    /\ UNCHANGED <<functionVars, round_half_even, args, files, env, disk,
                   display_res_list, all_background_files, pool_ids,
                   background_indices, local_reset_done, image, returned,
                   pool_at_reload, failed, primary_window_origin, call, iter>>

\* "giant_image = create_giant_image(bg_images, display_res_list)" in the
\* main loop.  What the call does to the canvas is the subject of the
\* specifications of create_giant_image; here it is the step between the
\* selection and the output (--logcurrent, which writes the names to a log
\* before it, is not given), which sets the global origin from --windows
\* and may end the program: max() of an empty display list raises
\* ValueError, the origin correction raises IndexError when it reads the
\* origin from the empty tuple, and ValueError when one of its copies does.
CallCreateGiantImage ==
    /\ pc = "create_giant_image"
    /\ IF display_res_list = <<>>
       THEN pc' = "ValueError" /\ UNCHANGED <<iter, primary_window_origin>>
       ELSE IF ~CorrectsOrigin(env.system_os)
       THEN /\ pc' = "imsave" /\ iter' = [iter EXCEPT !.canvas = TRUE]
            /\ UNCHANGED primary_window_origin
       ELSE \E o \in {IF Given(args.windows)
                      THEN <<args.windows[2], args.windows[1]>>
                      ELSE primary_window_origin} :
               /\ primary_window_origin' = o
               /\ IF o = <<>>
                  THEN pc' = "IndexError" /\ UNCHANGED iter
                  ELSE IF correct_windows_origin(
                              FirstCanvas(BoundingBox(display_res_list)),
                              o).raised
                  THEN pc' = "ValueError" /\ UNCHANGED iter
                  ELSE pc' = "imsave" /\ iter' = [iter EXCEPT !.canvas = TRUE]
    /\ UNCHANGED <<functionVars, round_half_even, args, files, env, disk,
                   display_res_list, all_background_files, pool_ids,
                   background_indices, local_reset_done, image, count,
                   bg_image_names, returned, pool_at_reload, failed, call>>

\* "scipy.misc.imsave(save_file_name, giant_image)" in its try block: the
\* file is written, replacing what the path held, or an IOError is caught
\* and a warning printed.
SaveImage ==
    /\ pc = "imsave"
    /\ \E saved \in IF env.imsave_may_fail THEN BOOLEAN ELSE {TRUE} :
          IF saved
          THEN /\ disk' = [exists |-> TRUE,
                           overwritten |-> disk.overwritten \/ disk.exists]
               /\ iter' = [iter EXCEPT !.written = TRUE]
          ELSE UNCHANGED <<disk, iter>>
    /\ pc' = "set_wallpaper"
    /\ UNCHANGED <<functionVars, round_half_even, args, files, env,
                   display_res_list, all_background_files, pool_ids,
                   background_indices, local_reset_done, image, count,
                   bg_image_names, returned, pool_at_reload, failed,
                   primary_window_origin, call>>

\* "if not args.dontapply: set_image_as_current_wallpaper(save_file_name)".
\* On Linux the function reads current_env["XDG_CURRENT_DESKTOP"], a
\* KeyError when the variable is not set; the errors of the programs and
\* system calls that set the wallpaper are caught, and on another system
\* than Linux and Windows only a message is printed.
SetWallpaper ==
    /\ pc = "set_wallpaper"
    /\ iter' = [iter EXCEPT !.applied = ~args.dontapply]
    /\ pc' = IF /\ ~args.dontapply /\ env.system_os = "Linux"
                /\ ~Given(env.XDG_CURRENT_DESKTOP)
             THEN "KeyError"
             ELSE "end_of_iteration"
    /\ UNCHANGED <<functionVars, round_half_even, args, files, env, disk,
                   display_res_list, all_background_files, pool_ids,
                   background_indices, local_reset_done, image, count,
                   bg_image_names, returned, pool_at_reload, failed,
                   primary_window_origin, call>>

\* The end of an iteration of the main loop: without --timedelay the loop
\* is left and the program ends, with it the program sleeps and starts the
\* next iteration.
EndOfIteration ==
    /\ pc = "end_of_iteration"
    /\ IF Given(args.timedelay)
       THEN pc' = "get_display_info" /\ iter' = NewIteration
       ELSE pc' = "exit0" /\ UNCHANGED iter
    /\ UNCHANGED <<functionVars, round_half_even, args, files, env, disk,
                   display_res_list, all_background_files, pool_ids,
                   background_indices, local_reset_done, image, count,
                   bg_image_names, returned, pool_at_reload, failed,
                   primary_window_origin, call>>

\* Another program creates the output file before an iteration of the main
\* loop begins (before the first one, or while the program sleeps).
FileAppears ==
    /\ pc = "get_display_info"
    /\ ~disk.exists
    /\ disk' = [disk EXCEPT !.exists = TRUE]
    /\ UNCHANGED <<functionVars, round_half_even, args, files, env,
                   display_res_list, all_background_files, pool_ids,
                   background_indices, local_reset_done, image, count,
                   bg_image_names, returned, pool_at_reload, failed,
                   primary_window_origin, call, iter,
                   pc>>

\* The command lines of the runs that exercise the output: --percenterror 0,
\* --oneimage, --timedelay MINUTES, --noclobber, --dontapply, --reslist
\* 2x2+0+0 4x2+2+0, --windows 0 0, --x11, with --sequential.
RunArgs ==
    [sequential : {TRUE}, percenterror : {<<>>, <<0>>}, fitimage : {<<>>},
     oneimage : BOOLEAN, timedelay : {<<>>, <<1>>},
     noclobber : BOOLEAN, dontapply : BOOLEAN,
     reslist : {<<>>, << <<2, 2, 0, 0>>, <<4, 2, 2, 0>> >>},
     windows : {<<>>, <<0, 0>>}, x11 : BOOLEAN]

\* The systems and the options that depend on them: platform.system(),
\* XDG_CURRENT_DESKTOP (<<>> when not in the environment), and whether --reslist, --windows
\* and --x11 are given.
RunPlatforms ==
    { <<"Linux", <<"GNOME">>, FALSE, FALSE, FALSE>>,
      <<"Linux", <<>>, FALSE, FALSE, FALSE>>,
      <<"Windows", <<>>, FALSE, FALSE, FALSE>>,
      <<"Windows", <<>>, TRUE, FALSE, FALSE>>,
      <<"Windows", <<>>, TRUE, TRUE, FALSE>>,
      <<"Windows", <<>>, TRUE, FALSE, TRUE>> }

RunFileLists == UNION {[1..n -> Paths] : n \in 0..MaxRunFiles}

\* What get_display_info() may return in the course of one run: the same
\* list every time, or one of several (displays are plugged in and out).
RunLayouts ==
    (SUBSET { <<>>, << <<2, 2, 0, 0>> >>,
              << <<2, 2, 0, 0>>, <<2, 4, 0, 2>> >> }) \ {{}}

\* The runs that exercise the output: the output file exists or not, and
\* writing it may fail or not.
RunInit ==
    /\ round_half_even = TRUE
    /\ args \in RunArgs
    /\ files \in RunFileLists
    /\ env \in [layouts : RunLayouts, imsave_may_fail : BOOLEAN,
                system_os : {"Linux", "Windows"},
                XDG_CURRENT_DESKTOP : {<<>>, <<"GNOME">>}]
    /\ <<env.system_os, env.XDG_CURRENT_DESKTOP, Given(args.reslist),
         Given(args.windows), args.x11>> \in RunPlatforms
    /\ Given(args.reslist) => env.layouts = {<<>>}
    /\ disk \in [exists : BOOLEAN, overwritten : {FALSE}]
    /\ MainStart

(***************************************************************************)
(* create_giant_image, pixel by pixel                                      *)
(***************************************************************************)

\* The largest side of a display and of an image file.
MaxRect == 2
MaxPicture == 2

\* The pixels of the image files and of what zoom makes of them.
ImageTags == <<"image0", "image1">>
ScaledTags == <<"scaled0", "scaled1">>

\* np.uint8(i)
Uint8(i) == i % 256

\* np.empty: a raster whose pixels are whatever the memory held; the pixel
\* <<"uninit", y, x>> stands for a value nothing is known about.
EmptyCanvas(shape) == Raster("uninit", shape)

\* The colour of --colorfill taking precedence over that of --fitimage.
RgbFillColorfillLast ==
    IF Given(args.colorfill) THEN args.colorfill
    ELSE IF Given(args.fitimage) THEN args.fitimage
    ELSE <<>>

\* rgb_fill: the colour of --colorfill, replaced by that of --fitimage when
\* both are given; <<>> when none is.
RgbFill ==
    IF Given(args.fitimage) THEN args.fitimage
    ELSE IF Given(args.colorfill) THEN args.colorfill
    ELSE <<>>

\* The pixel of a colour: its three components as bytes.
RgbBytes(rgb_fill) ==
    <<"rgb", Uint8(rgb_fill[1]), Uint8(rgb_fill[2]), Uint8(rgb_fill[3])>>

\* "if rgb_fill: giant_image[:, :] = rgb_bytes"
FillCanvas(giant_image, rgb_fill) ==
    IF rgb_fill = <<>> THEN giant_image
    ELSE [shape |-> giant_image.shape,
          px |-> [c \in DOMAIN giant_image.px |-> RgbBytes(rgb_fill)]]

\* The shape of what ndimage zoom returns for the size asked for: that size,
\* or (the imperfect zoom the source warns of) one row and one column less
\* where there is more than one.
ZoomShape(yx_new, zoom_exact) ==
    IF zoom_exact THEN yx_new
    ELSE <<IF yx_new[1] > 1 THEN yx_new[1] - 1 ELSE yx_new[1],
           IF yx_new[2] > 1 THEN yx_new[2] - 1 ELSE yx_new[2]>>

\* scale_image for the image of display count: the image itself when it has
\* the size asked for, else a new raster of interpolated pixels.
scale_image(image_arg, yx_new, count_arg, zoom_exact) ==
    IF yx_new = image_arg.shape THEN image_arg
    ELSE Raster(ScaledTags[count_arg + 1], ZoomShape(yx_new, zoom_exact))

\* "int(round(max(0.0, (scaled_image.shape[d] - disp_res[d]) / 2)))"
CropStart(scaled_side, disp_side) == Round(Max(0, scaled_side - disp_side), 2)

\* yx_from_start of the copy of one scaled image.
FromStart(scaled_shape, disp_res) ==
    IF ~Given(args.fitimage)
    THEN <<CropStart(scaled_shape[1], disp_res[1]),
           CropStart(scaled_shape[2], disp_res[2])>>
    ELSE <<0, 0>>

\* The offsets of the display taken the wrong way round.
ToStartSwapped(disp_res, fitOffsets) ==
    <<disp_res[4] + fitOffsets[1], disp_res[3] + fitOffsets[2]>>

\* yx_to_start of the copy of one scaled image.
ToStart(disp_res, fitOffsets) ==
    <<disp_res[3] + fitOffsets[1], disp_res[4] + fitOffsets[2]>>

\* The options of create_giant_image: --fitimage R G B, --colorfill R G B,
\* --oneimage.
CompositeOptions ==
    [fitimage : {<<>>, <<0, 0, 0>>}, colorfill : {<<>>, <<9, 9, 9>>},
     oneimage : BOOLEAN]

\* The platforms: platform.system(), --windows X Y, --x11 and the global
\* yx_primary_window_origin as get_display_info leaves it: on Windows the
\* pair get_display_info_windows computed, or, with --reslist, which
\* returns before that function is called, still the empty tuple of the
\* start of the program; on Linux it is not read unless --windows sets it.
CompositePlatforms ==
    { <<"Linux", <<>>, FALSE, <<>>>>, <<"Linux", <<1, 0>>, FALSE, <<>>>>,
      <<"Linux", <<1, 0>>, TRUE, <<>>>>,
      <<"Windows", <<>>, FALSE, <<0, 1>>>>, <<"Windows", <<>>, TRUE, <<0, 1>>>>,
      <<"Windows", <<>>, FALSE, <<>>>> }

RectSizes == (1..MaxRect) \X (1..MaxRect)
PictureShapes == (1..MaxPicture) \X (1..MaxPicture)

\* The display lists: one display; or two, the second as large as the
\* first or as large as the first turned by 90 degrees, and to the right of
\* the first, below it, on it (mirrored displays) or diagonally off it.
CompositeLayouts ==
    { << Display(a, 0, 0) >> : a \in RectSizes }
    \cup
    { << Display(a, 0, 0), Display(b, o[1], o[2]) >> :
        <<a, b, o>> \in
          { <<a, b, o>> \in RectSizes \X RectSizes
                              \X ((0..MaxRect) \X (0..MaxRect)) :
              /\ b \in {a, <<a[2], a[1]>>}
              /\ o \in {<<0, a[2]>>, <<a[1], 0>>, <<0, 0>>, <<a[1], a[2]>>} } }

\* The images of a call: one for each display (one in all with --oneimage),
\* the first of the given shape, the second of that shape turned.
ImageList(shape, n) ==
    [k \in 1..n |-> Raster(ImageTags[k],
                           IF k = 1 THEN shape ELSE <<shape[2], shape[1]>>)]

CompositeInit ==
    /\ round_half_even \in BOOLEAN
    /\ \E platform \in CompositePlatforms :
       \E a \in CompositeOptions :
       \E disp_res_list_arg \in CompositeLayouts :
       \E shape \in PictureShapes :
       \E zoom_exact \in BOOLEAN :
          /\ args = [fitimage |-> a.fitimage, colorfill |-> a.colorfill,
                     oneimage |-> a.oneimage, windows |-> platform[2],
                     x11 |-> platform[3]]
          /\ composite =
               [pc |-> "call",
                system_os |-> platform[1],
                yx_primary_window_origin |-> platform[4],
                zoom_exact |-> zoom_exact,
                image_list |-> ImageList(shape,
                                  IF a.oneimage THEN 1
                                  ELSE Len(disp_res_list_arg)),
                disp_res_list_arg |-> disp_res_list_arg,
                disp_res_list |-> <<>>,
                giant_image |-> EmptyCanvas(<<0, 0>>),
                yx_new_list |-> <<>>,
                scaled_image_list |-> <<>>,
                fitimage_offset_list |-> <<>>,
                copies |-> <<>>]

\* create_giant_image up to the scaling loop: the bounding box, the empty
\* canvas and, with --oneimage, the display list of one large display.
GiantCanvas ==
    /\ composite.pc = "call"
    /\ \E r \in {CreateCanvas(composite.disp_res_list_arg)} :
          composite' = [composite EXCEPT
                          !.pc = "scaling",
                          !.giant_image = EmptyCanvas(r.giant_shape),
                          !.disp_res_list = r.disp_res_list]
    /\ UNCHANGED <<round_half_even, args, copy, origin, scaling, giant,
                   selectorVars>>

\* The fill moved into the scaling loop: it follows the first image.
PhaseAfterScalingFirstImage(k, n) == "filling"

\* Where create_giant_image goes after scaling image k of n: to the next
\* image, and after the last one to the fill.
PhaseAfterScaling(k, n) == IF k = n THEN "filling" ELSE "scaling"

\* One iteration of the scaling loop: calculate_scaling and scale_image for
\* the next pair of zip(image_list, disp_res_list).
GiantScale ==
    /\ composite.pc = "scaling"
    /\ LET k == Len(composite.scaled_image_list) + 1
           n == Min(Len(composite.image_list), Len(composite.disp_res_list))
       IN  \E r \in {calculate_scaling(composite.image_list[k].shape,
                                       composite.disp_res_list[k],
                                       composite.disp_res_list)} :
              composite' = [composite EXCEPT
                  !.pc = PhaseAfterScaling(k, n),
                  !.yx_new_list = Append(@, r[2]),
                  !.fitimage_offset_list = Append(@, r[3]),
                  !.scaled_image_list =
                      Append(@, scale_image(composite.image_list[k], r[2],
                                            k - 1, composite.zoom_exact))]
    /\ UNCHANGED <<round_half_even, args, copy, origin, scaling, giant,
                   selectorVars>>

\* The fill of the canvas with rgb_fill, when there is one.
GiantFill ==
    /\ composite.pc = "filling"
    /\ composite' = [composite EXCEPT
                        !.pc = "compositing",
                        !.giant_image = FillCanvas(@, RgbFill)]
    /\ UNCHANGED <<round_half_even, args, copy, origin, scaling, giant,
                   selectorVars>>

\* One iteration of the copy loop: copy_subimage of the next scaled image
\* to the place of its display on the canvas.
GiantCopy ==
    /\ composite.pc = "compositing"
    /\ LET k == Len(composite.copies) + 1
           scaled_image == composite.scaled_image_list[k]
           disp_res == composite.disp_res_list[k]
           yx_from_start == FromStart(scaled_image.shape, disp_res)
           yx_extents == <<disp_res[1], disp_res[2]>>
           yx_to_start == ToStart(disp_res, composite.fitimage_offset_list[k])
       IN  \E r \in {copy_subimage(yx_extents, scaled_image, yx_from_start,
                                   composite.giant_image, yx_to_start)} :
              composite' = [composite EXCEPT
                  !.pc = IF r.raised THEN "ValueError"
                         ELSE IF k = Len(composite.scaled_image_list)
                         THEN "origin" ELSE "compositing",
                  !.giant_image = r.to_image,
                  !.copies = Append(@, [yx_from_start |-> yx_from_start,
                                        yx_extents |-> r.yx_extents,
                                        yx_to_start |-> yx_to_start,
                                        written |-> r.written])]
    /\ UNCHANGED <<round_half_even, args, copy, origin, scaling, giant,
                   selectorVars>>

\* The end of create_giant_image: on Windows, or with --windows, and
\* without --x11 the canvas is replaced by correct_windows_origin of it,
\* for the origin of --windows when that is given.
GiantCorrectOrigin ==
    /\ composite.pc = "origin"
    /\ IF CorrectsOrigin(composite.system_os)
       THEN LET yx_primary_window_origin ==
                    IF Given(args.windows)
                    THEN <<args.windows[2], args.windows[1]>>
                    ELSE composite.yx_primary_window_origin
            IN  IF yx_primary_window_origin = <<>>
                THEN composite' = [composite EXCEPT
                         !.pc = "IndexError",
                         !.yx_primary_window_origin = yx_primary_window_origin]
                ELSE \E r \in {correct_windows_origin(composite.giant_image,
                                   yx_primary_window_origin)} :
                        composite' = [composite EXCEPT
                            !.pc = IF r.raised THEN "ValueError" ELSE "done",
                            !.yx_primary_window_origin =
                                yx_primary_window_origin,
                            !.giant_image = IF r.raised THEN @ ELSE r.new_image]
       ELSE composite' = [composite EXCEPT !.pc = "done"]
    /\ UNCHANGED <<round_half_even, args, copy, origin, scaling, giant,
                   selectorVars>>

(***************************************************************************)
(* Specifications                                                          *)
(***************************************************************************)

SelectorUnused ==
    /\ files = Unused /\ display_res_list = Unused
    /\ all_background_files = Unused /\ pool_ids = Unused
    /\ background_indices = Unused /\ local_reset_done = Unused
    /\ image = Unused /\ count = Unused /\ bg_image_names = Unused
    /\ returned = Unused /\ pool_at_reload = Unused /\ failed = Unused
    /\ primary_window_origin = Unused
    /\ pc = Unused
    /\ env = Unused /\ disk = Unused /\ call = Unused /\ iter = Unused

\* The program: the main loop and the selector.
Init ==
    /\ MainInit
    /\ copy = Unused /\ origin = Unused /\ scaling = Unused /\ giant = Unused
    /\ composite = Unused

Next ==
    \/ CheckNoclobber
    \/ GetDisplayInfo
    \/ SelectForDisplay
    \/ WhileIteration
    \/ AfterGetNext
    \/ CallCreateGiantImage
    \/ SaveImage
    \/ SetWallpaper
    \/ EndOfIteration

Spec == Init /\ [][Next]_vars

\* The program with its output: the main loop on every combination of
\* --noclobber, --dontapply and --timedelay, and the other programs that
\* write to the output path.
InitRun ==
    /\ RunInit
    /\ copy = Unused /\ origin = Unused /\ scaling = Unused /\ giant = Unused
    /\ composite = Unused

NextRun ==
    \/ CheckNoclobber
    \/ GetDisplayInfo
    \/ SelectForDisplay
    \/ WhileIteration
    \/ AfterGetNext
    \/ CallCreateGiantImage
    \/ SaveImage
    \/ SetWallpaper
    \/ EndOfIteration
    \/ FileAppears

SpecRun == InitRun /\ [][NextRun]_vars

\* copy_subimage on every combination of shapes, starts and extents.
InitCopy ==
    /\ CopyInit
    /\ round_half_even = Unused /\ args = Unused
    /\ origin = Unused /\ scaling = Unused /\ giant = Unused
    /\ composite = Unused
    /\ SelectorUnused

NextCopy ==
    /\ CopySubimage
    /\ UNCHANGED <<round_half_even, args, origin, scaling, giant, composite,
                   selectorVars>>

SpecCopy == InitCopy /\ [][NextCopy]_vars

\* correct_windows_origin on every canvas shape and origin.
InitOrigin ==
    /\ OriginInit
    /\ round_half_even = Unused /\ args = Unused
    /\ copy = Unused /\ scaling = Unused /\ giant = Unused
    /\ composite = Unused
    /\ SelectorUnused

NextOrigin ==
    /\ CorrectWindowsOrigin
    /\ UNCHANGED <<round_half_even, args, copy, scaling, giant, composite,
                   selectorVars>>

SpecOrigin == InitOrigin /\ [][NextOrigin]_vars

\* calculate_scaling on every image shape, display size and policy.
InitScaling ==
    /\ ScalingInit
    /\ copy = Unused /\ origin = Unused /\ giant = Unused
    /\ composite = Unused
    /\ SelectorUnused

NextScaling ==
    /\ CalculateScaling
    /\ UNCHANGED <<copy, origin, giant, composite, selectorVars>>

SpecScaling == InitScaling /\ [][NextScaling]_vars

\* The canvas of create_giant_image on every display list.
InitGiant ==
    /\ GiantInit
    /\ round_half_even = Unused
    /\ copy = Unused /\ origin = Unused /\ scaling = Unused
    /\ composite = Unused
    /\ SelectorUnused

NextGiant ==
    /\ CreateGiantImage
    /\ UNCHANGED <<round_half_even, copy, origin, scaling, composite,
                   selectorVars>>

SpecGiant == InitGiant /\ [][NextGiant]_vars

\* create_giant_image on every layout, image shape, option and platform.
InitComposite ==
    /\ CompositeInit
    /\ copy = Unused /\ origin = Unused /\ scaling = Unused /\ giant = Unused
    /\ SelectorUnused

NextComposite ==
    \/ GiantCanvas
    \/ GiantScale
    \/ GiantFill
    \/ GiantCopy
    \/ GiantCorrectOrigin

SpecComposite == InitComposite /\ [][NextComposite]_vars

(***************************************************************************)
(* Properties                                                              *)
(***************************************************************************)

CopyEnded == copy.pc \in {"returned", "ValueError"}

\* The pixel stored to the destination cell c came from the cell of the
\* source raster that lies, in dimension dim, as far from the source start
\* as c lies from the destination start.
SameOffset(c, dim) ==
    /\ copy.to_image.px[c][1] = "from"
    /\ copy.to_image.px[c][dim + 1] =
          copy.yx_from_start[dim] + (c[dim] - copy.yx_to_start[dim])
    /\ copy.to_image.px[c][dim + 1] \in 0..(copy.from_shape[dim] - 1)

\* C1: copy_subimage stores only to cells of the destination raster and
\* loads only from cells of the source raster, whatever the extents and the
\* starts (negative starts and starts beyond the raster included): every
\* pixel of the destination after the call is the pixel it held before or a
\* pixel of the source raster.  The accesses are good by the tests of the
\* function itself: in a dimension where neither start is negative, the
\* pixel stored to a cell is the one of the source cell at the same offset
\* from the start, a cell of the source raster; no cell is filled from
\* another source cell because the wanted one lies outside the source.
C1_CopyStaysInBounds ==
    CopyEnded =>
        /\ copy.written \subseteq Cells(copy.to_shape)
        /\ copy.read \subseteq Cells(copy.from_shape)
        /\ DOMAIN copy.to_image.px = Cells(copy.to_shape)
        /\ \A c \in Cells(copy.to_shape) :
              \/ copy.to_image.px[c] = <<"to", c[1], c[2]>>
              \/ \E f \in Cells(copy.from_shape) :
                    copy.to_image.px[c] = <<"from", f[1], f[2]>>
        /\ \A c \in Cells(copy.to_shape) \ copy.written :
              copy.to_image.px[c] = <<"to", c[1], c[2]>>
        /\ \A dim \in 1..2 :
              (copy.yx_from_start[dim] >= 0 /\ copy.yx_to_start[dim] >= 0) =>
                  \A c \in copy.written : SameOffset(c, dim)

\* A copy that stored a pixel with negative starts in both rasters for the
\* rows, and for the columns starts that are not negative and an extent
\* that the test against the source raster made smaller.
C1_Witness ==
    /\ copy.pc = "returned"
    /\ copy.written # {}
    /\ copy.yx_to_start[1] < 0
    /\ copy.yx_from_start[1] < 0
    /\ copy.yx_to_start[2] >= 0
    /\ copy.yx_from_start[2] >= 0
    /\ copy.clamped[2] < copy.yx_extents[2]
    /\ copy.yx_from_start[2] + copy.yx_extents[2] > copy.from_shape[2]

\* C2: copy_subimage never raises, whatever the extents and the starts.
C2_CopyNeverRaises == copy.pc # "ValueError"

ScalingReturned == scaling.pc = "returned"

\* C3: without --fitimage the size chosen by calculate_scaling covers the
\* display: its height and its width are at least the display's.
C3_FillCoversDisplay ==
    (ScalingReturned /\ ~Given(args.fitimage)) =>
        /\ scaling.yx_new[1] >= scaling.disp_res[1]
        /\ scaling.yx_new[2] >= scaling.disp_res[2]

\* The width-exact size was chosen, its height was rounded and exceeds the
\* display's.
C3_Witness ==
    /\ ScalingReturned
    /\ ~Given(args.fitimage)
    /\ scaling.yx_new[1] > scaling.disp_res[1]
    /\ (scaling.image_shape[1] * scaling.disp_res[2]) % scaling.image_shape[2] # 0

\* C4: with --fitimage the size chosen by calculate_scaling fits into the
\* display: its height and its width are at most the display's.
C4_FitInsideDisplay ==
    (ScalingReturned /\ Given(args.fitimage)) =>
        /\ scaling.yx_new[1] <= scaling.disp_res[1]
        /\ scaling.yx_new[2] <= scaling.disp_res[2]

\* The width-exact size was chosen, its height was rounded and is less than
\* the display's.
C4_Witness ==
    /\ ScalingReturned
    /\ Given(args.fitimage)
    /\ scaling.yx_new[1] < scaling.disp_res[1]
    /\ (scaling.image_shape[1] * scaling.disp_res[2]) % scaling.image_shape[2] # 0

\* C5: the canvas of create_giant_image is as high as the largest
\* yOffset+height and as wide as the largest xOffset+width of the display
\* list: no display reaches beyond it and some display reaches each bound.
C5_CanvasIsBoundingBox ==
    giant.pc = "canvas" =>
        LET d == giant.disp_res_list_arg
        IN  /\ \A i \in 1..Len(d) : /\ d[i][1] + d[i][3] <= giant.giant_shape[1]
                                    /\ d[i][2] + d[i][4] <= giant.giant_shape[2]
            /\ \E i \in 1..Len(d) : d[i][1] + d[i][3] = giant.giant_shape[1]
            /\ \E i \in 1..Len(d) : d[i][2] + d[i][4] = giant.giant_shape[2]

\* Two displays at offsets: the second decides the height of the canvas and
\* the first its width.
C5_Witness ==
    /\ giant.pc = "canvas"
    /\ Len(giant.disp_res_list_arg) = 2
    /\ LET d == giant.disp_res_list_arg
       IN  /\ d[1][3] > 0 /\ d[2][4] > 0
           /\ d[1][1] + d[1][3] < giant.giant_shape[1]
           /\ d[2][2] + d[2][4] < giant.giant_shape[2]

\* The origin of the first correction lies on the canvas.
FirstOriginInRange ==
    /\ Len(origin.applied) >= 1
    /\ origin.applied[1][1] \in 0..origin.shape[1]
    /\ origin.applied[1][2] \in 0..origin.shape[2]

\* C6: for an origin (y0, x0) on the canvas, correct_windows_origin returns a
\* raster of the same size with out[(y-y0) mod H][(x-x0) mod W] = in[y][x];
\* each cell of it is stored to by exactly one of the four copies, and the
\* argument is not modified.
C6_CircularShift ==
    (Len(origin.applied) = 1 /\ FirstOriginInRange) =>
        LET y0 == origin.applied[1][1]
            x0 == origin.applied[1][2]
            H == origin.shape[1]
            W == origin.shape[2]
        IN  /\ origin.pc = "corrected"
            /\ origin.giant_image.shape = origin.shape
            /\ DOMAIN origin.giant_image.px = Cells(origin.shape)
            /\ \A c \in Cells(origin.shape) :
                  /\ origin.giant_image.px[<<(c[1] - y0) % H, (c[2] - x0) % W>>]
                        = <<"canvas", c[1], c[2]>>
                  /\ origin.writes[c] = 1
            /\ origin.image = FirstCanvas(origin.shape)

\* A correction whose origin is strictly inside the canvas: four non-empty
\* pieces.
C6_Witness ==
    /\ origin.pc = "corrected"
    /\ Len(origin.applied) = 1
    /\ origin.applied[1][1] \in 1..(origin.shape[1] - 1)
    /\ origin.applied[1][2] \in 1..(origin.shape[2] - 1)

\* The second correction used the complement (H-y0, W-x0) of the first.
SecondIsComplement ==
    /\ Len(origin.applied) = 2
    /\ origin.applied[2] = <<origin.shape[1] - origin.applied[1][1],
                             origin.shape[2] - origin.applied[1][2]>>

\* C7: correcting with (y0, x0) on the canvas and then with (H-y0, W-x0)
\* yields the original canvas, pixel for pixel.
C7_ComplementRestores ==
    (FirstOriginInRange /\ SecondIsComplement) =>
        /\ origin.pc = "corrected"
        /\ origin.giant_image = FirstCanvas(origin.shape)

\* Both corrections moved pixels: the origin is strictly inside the canvas.
C7_Witness ==
    /\ origin.pc = "corrected"
    /\ SecondIsComplement
    /\ origin.applied[1][1] \in 1..(origin.shape[1] - 1)
    /\ origin.applied[1][2] \in 1..(origin.shape[2] - 1)

\* C8: between two reloads of the list no entry of it (one position of the
\* list as loaded) is returned by more than one call of
\* get_next_background_image.
C8_NoEntryReturnedTwice ==
    \A i, j \in 1..Len(returned) : i # j => returned[i] # returned[j]

\* Two calls without a reload between them returned two entries of the list
\* that hold the same file name.
C8_Witness ==
    /\ pc = "returned"
    /\ Len(returned) >= 2
    /\ \E i, j \in 1..Len(returned) :
          i # j /\ files[returned[i] + 1] = files[returned[j] + 1]

\* The file is one the selector accepts for the display being served: it
\* decodes, and its scaling error does not exceed --percenterror.
Acceptable(filename) ==
    /\ Decode(filename) # <<>>
    /\ Given(args.percenterror) =>
          ~ExceedsPercent(calculate_scaling(Decode(filename),
                              display_res_list[count + 1], display_res_list)[4],
                          args.percenterror[1])

\* The draw of get_next_background_image has raised: the program has
\* stopped with fewer names than create_giant_image is called with.
SelectorRaised ==
    /\ pc \in {"IndexError", "ValueError"}
    /\ Len(bg_image_names) < IF args.oneimage THEN 1 ELSE Len(display_res_list)

CallEnded == pc = "returned" \/ SelectorRaised

\* C9: a call of get_next_background_image that has reloaded the list and
\* finds no acceptable file in it (also when the reloaded list is empty)
\* returns the empty tuple, and ends in no other way.
C9_NoCandidateReturnsEmpty ==
    (CallEnded /\ local_reset_done
        /\ \A k \in 1..Len(files) : ~Acceptable(files[k]))
    => (pc = "returned" /\ image = <<>>)

\* C10: the list of image files is reloaded only when it has become empty.
C10_ReloadOnlyWhenEmpty == pool_at_reload = <<>>

\* C11: with --percenterror P every image get_next_background_image returns
\* has, for the scaling computed for it (the display being served in the
\* display list), an error fraction times 100 of at most P; with P = 0 the
\* error fraction of a returned image is exactly 0.
C11_ReturnedWithinPercent ==
    (pc = "returned" /\ image # <<>> /\ Given(args.percenterror)) =>
        LET err_fraction == calculate_scaling(image[2],
                                display_res_list[count + 1], display_res_list)[4]
            P == args.percenterror[1]
        IN  /\ err_fraction[1] * 100 <= P * err_fraction[2]
            /\ P = 0 => err_fraction[1] = 0

\* With --percenterror 50 a call skipped a file it had drawn and returned one
\* whose error fraction is exactly one half.
C11_Witness ==
    /\ pc = "returned" /\ image # <<>>
    /\ args.percenterror = <<50>>
    /\ Len(background_indices) < Len(all_background_files)
    /\ LET err_fraction == calculate_scaling(image[2],
                               display_res_list[count + 1], display_res_list)[4]
       IN  err_fraction[1] * 2 = err_fraction[2]

\* C12: with --noclobber the program never replaces a file that exists at
\* the output path, in no iteration of the main loop (the iterations after
\* a --timedelay sleep included, when the file may have come to exist after
\* the test before the loop).
C12_NoclobberNeverOverwrites == args.noclobber => ~disk.overwritten

\* The for loop of the main loop is not in a call, and the list was
\* reloaded by the first call of this iteration (the names returned since
\* the reload are those of this iteration).
FreshPoolThisIteration ==
    /\ pc \in {"select", "create_giant_image", "imsave", "set_wallpaper",
               "end_of_iteration", "exit0"}
    /\ Len(returned) = Len(bg_image_names)

\* C13: with --sequential, every file readable and no --percenterror, when
\* the list as reloaded has at least as many entries as there are displays,
\* the i-th display is given the i-th entry of the list as reloaded.
C13_SequentialInOrder ==
    (/\ args.sequential /\ ~Given(args.percenterror)
     /\ \A k \in 1..Len(files) : Decode(files[k]) # <<>>
     /\ Len(files) >= Len(display_res_list)
     /\ FreshPoolThisIteration) =>
        \A i \in 1..Len(bg_image_names) :
            /\ bg_image_names[i] = files[i]
            /\ returned[i] = i - 1

\* Two displays were given the first two entries, which differ, of a list
\* of three.
C13_Witness ==
    /\ args.sequential /\ ~Given(args.percenterror) /\ ~args.oneimage
    /\ \A k \in 1..Len(files) : Decode(files[k]) # <<>>
    /\ Len(files) = 3
    /\ FreshPoolThisIteration
    /\ Len(bg_image_names) = 2
    /\ bg_image_names[1] # bg_image_names[2]
    /\ pc = "create_giant_image"

\* The cells of the canvas that belong to a display.
RectCells(disp_res) ==
    Block(<<disp_res[3], disp_res[1]>>, <<disp_res[4], disp_res[2]>>)

\* The zoom produced the k-th scaled image in the size calculate_scaling
\* chose.
ExactResize(k) ==
    composite.scaled_image_list[k].shape = composite.yx_new_list[k]

AllExactResize ==
    \A k \in 1..Len(composite.scaled_image_list) : ExactResize(k)

\* The two displays of 768 rows by 1024 columns side by side.
SideBySide768 == << <<768, 1024, 0, 0>>, <<768, 1024, 0, 1024>> >>

\* C14: without --fitimage and without a fill colour, each copy whose scaled
\* image has the planned size stores to exactly the cells of its display,
\* each with the pixel of the scaled image at the same place counted from
\* the crop start, and crop start + display size does not exceed the scaled
\* image; when all copies are done no cell of a display is uninitialised.
\* Two displays of 768 x 1024 side by side give a canvas of 768 x 2048, and
\* the copies for them keep the extents 768 x 1024.
C14_FillCoversEveryDisplay ==
    (composite.pc # "call" /\ ~Given(args.fitimage) /\ ~Given(args.colorfill)) =>
        /\ \A k \in 1..Len(composite.copies) :
              ExactResize(k) =>
                LET d == composite.disp_res_list[k]
                    c == composite.copies[k]
                    scaled_image == composite.scaled_image_list[k]
                IN  /\ c.written = RectCells(d)
                    /\ c.yx_extents = <<d[1], d[2]>>
                    /\ \A j \in 1..2 :
                          c.yx_from_start[j] + d[j] <= scaled_image.shape[j]
                    /\ (k = Len(composite.copies)
                          /\ composite.pc \in {"compositing", "origin"}) =>
                          \A cell \in RectCells(d) :
                              composite.giant_image.px[cell] =
                                  Load(scaled_image,
                                       <<c.yx_from_start[1] + cell[1] - d[3],
                                         c.yx_from_start[2] + cell[2] - d[4]>>)
        /\ AllExactResize => composite.pc # "ValueError"
        /\ (composite.pc = "origin" /\ AllExactResize) =>
              \A i \in 1..Len(composite.disp_res_list_arg) :
                 \A cell \in RectCells(composite.disp_res_list_arg[i]) :
                    /\ cell \in DOMAIN composite.giant_image.px
                    /\ composite.giant_image.px[cell][1] # "uninit"
        /\ BoundingBox(SideBySide768) = <<768, 2048>>
        /\ \A i \in 1..2 : \A width \in {1024, 1366} :
              ClampedExtents(<<768, 1024>>, <<768, width>>,
                             FromStart(<<768, width>>, SideBySide768[i]),
                             BoundingBox(SideBySide768),
                             ToStart(SideBySide768[i], <<0, 0>>))
                = <<768, 1024>>

\* Two displays side by side were covered, the second with a scaled image
\* that was cropped on both sides.
C14_Witness ==
    /\ composite.pc = "origin"
    /\ ~Given(args.fitimage) /\ ~Given(args.colorfill) /\ ~args.oneimage
    /\ Len(composite.copies) = 2
    /\ AllExactResize
    /\ composite.disp_res_list[2][4] > 0
    /\ composite.copies[2].yx_from_start[2] > 0
    /\ composite.scaled_image_list[2].shape[2] >
          composite.copies[2].yx_from_start[2] + composite.disp_res_list[2][2]

\* The cells the copies made so far have stored to.
CopiedCells ==
    UNION {composite.copies[k].written : k \in 1..Len(composite.copies)}

\* C15: with --fitimage R G B, once the copies are done every cell of the
\* canvas that no copy stored to holds the colour R G B (also with
\* --colorfill given as well).
C15_FitPadsWithColour ==
    (composite.pc = "origin" /\ Given(args.fitimage)) =>
        \A cell \in Cells(composite.giant_image.shape) \ CopiedCells :
            composite.giant_image.px[cell] = RgbBytes(args.fitimage)

\* Both colours were given, a display is padded beside its image, and a part
\* of the canvas belongs to no display.
C15_Witness ==
    /\ composite.pc = "origin"
    /\ Given(args.fitimage) /\ Given(args.colorfill)
    /\ \E cell \in RectCells(composite.disp_res_list[1]) : cell \notin CopiedCells
    /\ \E cell \in Cells(composite.giant_image.shape) :
          \A i \in 1..Len(composite.disp_res_list) :
              cell \notin RectCells(composite.disp_res_list[i])
    /\ CopiedCells # {}

\* C16: the error fraction calculate_scaling returns lies between 0 and 1
\* for every image shape, display, display list and policy (fill, fit,
\* --oneimage), but for an excess due to rounding of at most one row or
\* column of pixels.
C16_ErrFractionInUnitRange ==
    ScalingReturned =>
        LET line == Max(Max(scaling.yx_new[1], scaling.yx_new[2]),
                        Max(scaling.disp_res[1], scaling.disp_res[2]))
        IN  /\ scaling.err_fraction[1] >= 0
            /\ scaling.err_fraction[1] <= scaling.err_fraction[2] + line

\* C17: when get_display_info returns the empty list the program exits with
\* status 1 in that iteration before a candidate is drawn, before
\* create_giant_image is called, before the output file is written and
\* before the wallpaper is set.
C17_NoDisplaysExits ==
    (iter.read /\ display_res_list = <<>>) =>
        /\ pc = "exit1"
        /\ ~iter.drawn /\ ~iter.canvas /\ ~iter.written /\ ~iter.applied

\* The empty list came in a later iteration, after one that wrote the file.
C17_Witness ==
    /\ iter.read /\ display_res_list = <<>>
    /\ pc = "exit1"
    /\ disk.exists /\ all_background_files # <<>>

\* C18: when get_next_background_image returns the empty tuple for a display
\* the program exits with status 1 without calling create_giant_image,
\* writing the output file or setting the wallpaper; create_giant_image is
\* called only with one image for each display (with --oneimage, with one
\* image).
C18_NoImageAborts ==
    /\ iter.none_returned =>
          /\ pc \in {"returned", "exit1"}
          /\ ~iter.canvas /\ ~iter.written /\ ~iter.applied
    /\ (pc = "create_giant_image" \/ iter.canvas) =>
          Len(bg_image_names) = IF args.oneimage THEN 1
                                ELSE Len(display_res_list)

\* The second display of two got no image after the first had got one.
C18_Witness ==
    /\ iter.none_returned /\ pc = "exit1"
    /\ count = 1 /\ Len(bg_image_names) = 1

\* C19: after the clamping of copy_subimage with starts that are not
\* negative, the extent e of each dimension satisfies 0 <= e,
\* from start + e <= size of the source and to start + e <= size of the
\* destination; a start beyond the raster gives the extent 0.
C19_ClampedExtentsFit ==
    (CopyEnded /\ \A d \in 1..2 : copy.yx_from_start[d] >= 0
                                 /\ copy.yx_to_start[d] >= 0) =>
        \A d \in 1..2 :
            /\ 0 <= copy.clamped[d]
            /\ copy.yx_from_start[d] + copy.clamped[d] <= copy.from_shape[d]
            /\ copy.yx_to_start[d] + copy.clamped[d] <= copy.to_shape[d]
            /\ (copy.yx_from_start[d] > copy.from_shape[d]
                  \/ copy.yx_to_start[d] > copy.to_shape[d]) => copy.clamped[d] = 0

\* C20: one call of get_next_background_image reloads the list at most
\* once, namely when it finds background_indices empty for the first time;
\* when it finds it empty for the second time it returns the empty tuple
\* without another reload.
C20_OneReloadPerCall ==
    /\ call.reloads <= 1
    /\ call.reloads = Min(call.empties, 1)
    /\ call.empties <= 2
    /\ call.empties = 2 => (pc \in {"returned", "exit1"} /\ image = <<>>)
    /\ (pc = "while" /\ call.reloads = 1) => local_reset_done

\* A call that reloaded the list, drew every entry of it and gave up.
C20_Witness ==
    /\ pc = "returned" /\ image = <<>>
    /\ call.reloads = 1 /\ call.empties = 2
    /\ Len(files) >= 2

\* C26: with --fitimage the offset of the scaled image plus its size does
\* not exceed the display's size in either dimension, under both roundings
\* of a half pixel, so the block copy_subimage stores to (at the display's
\* offset plus the fit offset, with the clamped extents) lies inside the
\* display.
C26_FitBlockInsideDisplay ==
    (ScalingReturned /\ Given(args.fitimage)) =>
        LET d == scaling.disp_res
            yx_to_start == ToStart(d, scaling.fitimage_offsets)
            e == ClampedExtents(<<d[1], d[2]>>, scaling.yx_new,
                                FromStart(scaling.yx_new, d),
                                BoundingBox(scaling.disp_res_list), yx_to_start)
        IN  \A j \in 1..2 :
               /\ scaling.fitimage_offsets[j] >= 0
               /\ scaling.fitimage_offsets[j] + scaling.yx_new[j] <= d[j]
               /\ e[j] = scaling.yx_new[j]
               /\ yx_to_start[j] >= d[j + 2]
               /\ yx_to_start[j] + e[j] <= d[j + 2] + d[j]

\* The padding of the width is an odd number of columns and the offset is
\* the half of it rounded up.
C26_Witness ==
    /\ ScalingReturned /\ Given(args.fitimage)
    /\ (scaling.disp_res[2] - scaling.yx_new[2]) % 2 = 1
    /\ 2 * scaling.fitimage_offsets[2] > scaling.disp_res[2] - scaling.yx_new[2]
    /\ scaling.yx_new[2] > 0

\* C27: without --fitimage the size chosen by calculate_scaling has the
\* display's height or the display's width, so at most one of the two terms
\* of the error fraction (rows beyond the display, columns beyond the
\* display) is not zero.
C27_FillMatchesOneDimension ==
    (ScalingReturned /\ ~Given(args.fitimage)) =>
        /\ \/ scaling.yx_new[1] = scaling.disp_res[1]
           \/ scaling.yx_new[2] = scaling.disp_res[2]
        /\ \/ (scaling.yx_new[1] - scaling.disp_res[1]) * scaling.yx_new[2] = 0
           \/ (scaling.yx_new[2] - scaling.disp_res[2]) * scaling.yx_new[1] = 0

\* The width-exact size was chosen because the height-exact one was too
\* narrow, and it is higher than the display.
C27_Witness ==
    /\ ScalingReturned /\ ~Given(args.fitimage)
    /\ scaling.yx_new[2] = scaling.disp_res[2]
    /\ scaling.yx_new[1] > scaling.disp_res[1]
    /\ RoundOfProduct(scaling.image_shape[2], scaling.disp_res[1],
                      scaling.image_shape[1])
          < scaling.disp_res[2]

\* C21: one iteration of the loop of get_next_background_image changes the
\* pool as follows.  With the pool in effect at the draw (the reloaded list
\* when the iteration reloads, the global list otherwise): an iteration that
\* returns a pair deletes exactly the entry at the drawn index, whose path is
\* the path returned, and keeps every other entry, entries with the same
\* path included, in order; an iteration that ends in a failed decode or a
\* rejection by the threshold leaves the pool as it is.
C21_OnlyDrawnEntryRemoved ==
    [][ (pc = "while" /\ ~(background_indices = <<>> /\ local_reset_done)) =>
          LET reload == background_indices = <<>>
              pool == IF reload THEN files ELSE all_background_files
              indices == IF reload THEN Range(Len(files)) ELSE background_indices
          IN  IF pc' = "returned"
              THEN \E pos \in 0..(Len(indices) - 1) :
                      /\ background_indices' = DelAt(indices, pos)
                      /\ image'[1] = pool[indices[pos + 1] + 1]
                      /\ all_background_files' = DelAt(pool, indices[pos + 1])
              ELSE all_background_files' = pool ]_vars

\* A pair was returned whose path is listed again behind another entry of
\* the pool that is left.
C21_Witness ==
    /\ pc = "returned" /\ image # <<>>
    /\ Len(all_background_files) = 2
    /\ all_background_files[2] = image[1]
    /\ all_background_files[1] # image[1]

\* C22: with --oneimage and --percenterror, the plan get_next_background_image
\* computes for the image it returns (the new size and the error fraction it
\* tests against the threshold) is the plan create_giant_image computes for
\* that image, which is made against the one display covering the bounding
\* box of all displays.
C22_SelectorPlanIsComposerPlan ==
    (pc = "returned" /\ image # <<>> /\ args.oneimage /\ Given(args.percenterror)) =>
        LET selector == calculate_scaling(image[2], display_res_list[count + 1],
                                          display_res_list)
            canvas == CreateCanvas(display_res_list)
            composer == calculate_scaling(image[2], canvas.disp_res_list[1],
                                          canvas.disp_res_list)
        IN  /\ selector[2] = composer[2]
            /\ selector[4][1] * composer[4][2] = composer[4][1] * selector[4][2]

\* C23: an entry of the list whose decode failed is not drawn again before
\* the list is reloaded, neither by the call in which it failed nor by a
\* later call: a draw from the list as it stands (no reload in this
\* iteration of the loop) never takes an entry that has failed since the
\* last reload.
C23_FailedEntryNotDrawnAgain ==
    [][ (pc = "while" /\ background_indices # <<>>) =>
          \A pos \in 0..(Len(background_indices) - 1) :
             background_indices' = DelAt(background_indices, pos) =>
                pool_ids[background_indices[pos + 1] + 1] \notin failed ]_vars

\* The steps of create_giant_image from one phase to the next; a copy and
\* the origin correction may also end the call with an exception.
PhaseSteps ==
    { <<"call", "scaling">>, <<"scaling", "scaling">>, <<"scaling", "filling">>,
      <<"filling", "compositing">>, <<"compositing", "compositing">>,
      <<"compositing", "origin">>, <<"origin", "done">>,
      <<"compositing", "ValueError">>, <<"origin", "ValueError">>,
      <<"origin", "IndexError">> }

\* C24: create_giant_image goes through its phases in the order canvas
\* creation, scaling, filling, compositing, origin correction, return: every
\* image is scaled before the canvas is filled, the canvas is filled before
\* the first copy_subimage (the fill changes no pixel a copy stored), and the
\* origin correction follows the last copy.
C24_PhasesInOrder ==
    [][ composite' # composite =>
          LET p == composite.pc
              n == Min(Len(composite.image_list), Len(composite.disp_res_list))
              scaled == Len(composite.scaled_image_list)
              copied == Len(composite.copies)
          IN  /\ <<p, composite'.pc>> \in PhaseSteps
              /\ Len(composite'.scaled_image_list) # scaled =>
                    p = "scaling" /\ copied = 0
              /\ p = "scaling" => composite'.giant_image = composite.giant_image
              /\ p = "filling" =>
                    /\ scaled = n /\ copied = 0 /\ composite'.copies = <<>>
                    /\ composite.giant_image =
                          EmptyCanvas(composite.giant_image.shape)
              /\ Len(composite'.copies) # copied =>
                    /\ p = "compositing" /\ scaled = n
                    /\ copied = 0 =>
                          composite.giant_image =
                             FillCanvas(EmptyCanvas(composite.giant_image.shape),
                                        RgbFill)
              /\ p = "origin" =>
                    /\ copied = n
                    /\ composite'.copies = composite.copies ]_vars

\* A call for two displays has returned after a fill and an origin
\* correction.
C24_Witness ==
    /\ composite.pc = "done"
    /\ Len(composite.copies) = 2
    /\ RgbFill # <<>>
    /\ CorrectsOrigin(composite.system_os)

\* C25 as stated: the origin correction changes the canvas only on Windows
\* without --x11; on any other platform, and with --x11, create_giant_image
\* returns the canvas as the copies left it.
C25_CorrectedOnlyOnWindows ==
    [][ (composite.pc = "origin"
         /\ ~(composite.system_os = "Windows" /\ ~args.x11)) =>
           /\ composite'.pc = "done"
           /\ composite'.giant_image = composite.giant_image ]_vars

\* C25, amended: the origin correction changes the canvas only on Windows
\* or with --windows, and without --x11; on another platform without
\* --windows, and with --x11, create_giant_image returns the canvas as the
\* copies left it.
C25_CorrectedOnlyOnWindowsOrByOption ==
    [][ (composite.pc = "origin"
         /\ ~((composite.system_os = "Windows" \/ Given(args.windows))
              /\ ~args.x11)) =>
           /\ composite'.pc = "done"
           /\ composite'.giant_image = composite.giant_image ]_vars

\* On Windows with --x11 a canvas more than one column wide was returned,
\* with the primary display's origin in its second column.
C25_Witness ==
    /\ composite.pc = "done"
    /\ composite.system_os = "Windows" /\ args.x11
    /\ composite.yx_primary_window_origin = <<0, 1>>
    /\ composite.giant_image.shape[2] >= 2

\* C28: when create_giant_image comes to the origin correction, the origin
\* of the primary display it reads (that of --windows, else the global
\* yx_primary_window_origin) is a pair (y, x), also on Windows with
\* --reslist and without --windows.
C28_OriginDefinedWhenCorrecting ==
    (composite.pc = "origin"
     /\ (composite.system_os = "Windows" \/ Given(args.windows)) /\ ~args.x11) =>
        Len(IF Given(args.windows) THEN <<args.windows[2], args.windows[1]>>
            ELSE composite.yx_primary_window_origin) = 2

\* C29: in an iteration of the main loop the wallpaper is set only after the
\* canvas of that iteration was written to the output file; when the write
\* fails no wallpaper is set in that iteration.
C29_AppliedOnlyAfterWritten == iter.applied => iter.written

\* A call of get_next_background_image is under way or has just ended.
InCall == pc \in {"while", "returned"} \/ SelectorRaised

\* The draws of a call number at most the length of the list at its entry
\* plus the length of the list it reloaded.
DrawsWithinBound ==
    InCall => call.draws <= call.entry
                              + (IF call.reloads > 0 THEN Len(files) ELSE 0)

\* A call does not end with an exception of its draw.
CallEndsByReturn == ~SelectorRaised

\* C30: every call of get_next_background_image comes to its end for every
\* list and every pattern of failed decodes and rejections: it returns, a
\* pair or the empty tuple, after at most len(list at entry) + len(reloaded
\* list) draws.
C30_CallReturnsWithinBound == DrawsWithinBound /\ CallEndsByReturn

====
